---- MODULE Spec2Model ----
(***************************************************************************)
(* A model of the SynergyScope front end: the demo page (demo.js), the     *)
(* dashboard (main.js), the chat widget (meta_chat.js) and the drag        *)
(* handlers of the two force-directed graphs (synergy_graph.js and         *)
(* visualizations.js).                                                     *)
(*                                                                         *)
(* JavaScript runs one macrotask (a user event, a timer callback, a        *)
(* settled fetch) to completion together with the promise continuations    *)
(* it releases, so every action below is one macrotask with its            *)
(* microtasks.  Timers fire in order of their deadline, and in order of    *)
(* creation among equal deadlines.                                         *)
(***************************************************************************)
EXTENDS Integers, Sequences, FiniteSets, TLC

VARIABLES
    \* ---- demo.js: the demo page
    cardActive,      \* card n carries the class 'active'
    stepStatus,      \* stepStatus[n][i]: text of the i-th .step-status of card n
    output,          \* output[n]: innerHTML of the output pane of card n
    pipelineStatus,  \* innerHTML of #pipelineStatus, a sequence of <pre> lines
    containers,      \* what is drawn in graphViz1, vizCanvas and the two canvases
    calls,           \* every invocation started so far, with its position
    timers,          \* pending setTimeout callbacks, in order of creation
    vizType,         \* value of the #vizType select
    insightType,     \* value of the #insightType select
    patchSelect,     \* value of the #patchSelect select
    loaded,          \* the third-party libraries the page has loaded
    \* ---- the network, as seen by fetch
    requests,        \* every request issued so far: its method, url and caller
    \* ---- main.js and meta_chat.js: the dashboard
    summonerName,    \* value of the #summonerName input
    analysisStatus,  \* innerHTML of #analysisStatus, a sequence of <p> texts
    polled,          \* the analysis ids pollAnalysisStatus was called with
    console,         \* how often each <<level, text>> was written to the console
    indicators,      \* className of the .status-dot of each agent card
    chatInput,       \* value of the #chatInput input
    chatMessages,    \* children of #chatMessages: <<sender, text>>
    metaInput,       \* value of the .chat-input of the MetaChat container
    metaMessages,    \* children of the .chat-messages of the MetaChat container
    fetches,         \* every invocation that fetched, with its position
    \* ---- synergy_graph.js and visualizations.js: a force-directed graph
    graph,           \* which code drew the graph ("" when none is drawn)
    nodes,           \* the simulation's nodes: x, y, fx, fy
    alphaTarget,     \* the simulation's alphaTarget, in tenths
    gestures,        \* d3-drag's gestures: the node each pointer drags
    lastEvent,       \* type of the last drag event dispatched
    \* ---- synergy_graph.js: a SynergyGraph under the mouse
    graphData,       \* this.graphData: the links, their ends resolved to nodes
    nodeAttrs,       \* attributes of the circles: opacity
    linkAttrs,       \* attributes of the lines: stroke-opacity, stroke-width
    transitions,     \* the d3 transition of this.nodeElements and this.linkElements
    hovered,         \* the last two calls of highlightNode / resetHighlight
    \* ---- synergy_graph.js: the object `new SynergyGraph(...)` builds
    synergyGraph     \* the instance last constructed, with the argument it got

demoVars == <<cardActive, stepStatus, output, pipelineStatus, containers,
              calls, timers, vizType, insightType, patchSelect, loaded>>
mainVars == <<summonerName, analysisStatus, polled, console, indicators,
              chatInput, chatMessages, metaInput, metaMessages, fetches>>
dragVars == <<graph, nodes, alphaTarget, gestures, lastEvent>>
hoverVars == <<graphData, nodeAttrs, linkAttrs, transitions, hovered>>
instanceVars == <<synergyGraph>>
vars == <<demoVars, requests, mainVars, dragVars, hoverVars, instanceVars>>

(***************************************************************************)
(* Bounds of the model.                                                    *)
(***************************************************************************)
\* .step-status elements on every agent card (the HTML decides; any number)
NumSteps == 2
\* invocations the user starts on the demo page in one behaviour
MaxCalls == 2
\* operations of the dashboard that get as far as their fetch in one behaviour
MaxFetches == 2
\* node and pointer coordinates range over 0..MaxCoord
MaxCoord == 1
\* links of the graph a SynergyGraph renders
MaxLinks == 2

(***************************************************************************)
(* demo.js: constants of the code.                                         *)
(***************************************************************************)
SleepBeforeRunning == 800
SleepBeforeComplete == 1200
MockDelay == 500
RemoveActiveDelay == 2000
PipelinePause == 2000

agents == <<"social_graph", "chemistry", "meta", "adaptation",
            "compatibility", "storyteller", "visualizer">>

AgentTypes == {agents[k] : k \in 1..Len(agents)}

agentMap == [a \in AgentTypes |->
               CASE a = "social_graph"  -> 1
                 [] a = "chemistry"     -> 2
                 [] a = "meta"          -> 3
                 [] a = "adaptation"    -> 4
                 [] a = "compatibility" -> 5
                 [] a = "storyteller"   -> 6
                 [] a = "visualizer"    -> 7]

Cards == 1..7
Steps == 1..NumSteps

VizTypes == {"synergy", "heatmap", "timeline", "composition"}
InsightTypes == {"synergy", "other"}
Patches == {"14.21"}
Libs == {"d3", "Chart"}

(***************************************************************************)
(* Values.  A datum is what a mock generator returns: the function it      *)
(* came from, whether it is an object, an array of objects or a string,    *)
(* the fields it (or each of its elements) has, and the argument echoed.   *)
(***************************************************************************)
Datum(fn, kind, fields, arg) ==
    [fn |-> fn, kind |-> kind, fields |-> fields, arg |-> arg]

NoData == Datum("", "none", {}, "")

Pane(html, data) == [html |-> html, data |-> data]

Placeholder == Pane("Output will appear here...", NoData)
Processing == Pane("Processing...", NoData)
ErrorPane(message) == Pane("Error: " \o message, NoData)
JsonPane(data) == Pane("json", data)
TextPane(data) == Pane("text", data)

StartingLine == "Starting full pipeline execution..."
CompleteLine == "Pipeline execution complete!"
ReadyLine == "Ready to start demo. Click \"Run Full Pipeline\" to begin..."

\* agent.replace('_', ' '): only social_graph holds an underscore
ReplaceUnderscore(agent) ==
    IF agent = "social_graph" THEN "social graph" ELSE agent

ExecutingLine(agent) == "Executing " \o ReplaceUnderscore(agent) \o " agent..."

(***************************************************************************)
(* The mock data generators (after their sleep).                           *)
(***************************************************************************)
mockGraphData == Datum("mockGraphData", "object", {"nodes", "edges"}, "")

mockChemistryData ==
    Datum("mockChemistryData", "object", {"pairs", "average_synergy"}, "")

mockMetaData(patch) ==
    Datum("mockMetaData", "object",
          {"patch_version", "win_rate", "games_played", "meta_shifts",
           "impact_score"}, patch)

mockAdaptationData ==
    Datum("mockAdaptationData", "object",
          {"patches", "win_rates", "adaptation_speeds", "latency"}, "")

mockCompositionData ==
    Datum("mockCompositionData", "object", {"top_compositions"}, "")

\* narratives[insightType] || "Generating narrative insight..."
mockNarrative(type) ==
    Datum("mockNarrative", "string", {},
          IF type \in {"synergy", "adaptation", "meta", "season"}
          THEN type ELSE "Generating narrative insight...")

\* the value mockVizData returns once all its sleeps are over
mockVizData(type) ==
    CASE type = "synergy"     -> mockGraphData
      [] type = "heatmap"     -> Datum("mockVizData", "array", {"patch", "win_rate"}, "")
      [] type = "timeline"    -> Datum("mockVizData", "array", {"date", "value"}, "")
      [] type = "composition" -> Datum("mockVizData", "array", {"name", "winRate"}, "")
      [] OTHER                -> NoData

(***************************************************************************)
(* main.js: the dashboard as it is served.                                 *)
(***************************************************************************)
\* the data-agent attributes of the agent cards of the dashboard
(***************************************************************************)
(* The force-directed graph: its nodes and the pointers that drag them.    *)
(***************************************************************************)
Nodes == {"Ahri", "Zed"}
Pointers == {"mouse", "touch0"}
Coords == 0..MaxCoord
\* null
Null == <<>>
\* simulation.alphaTarget(0.3), in tenths
AlphaTargetDragging == 3

\* nodes of the graph a SynergyGraph renders
Champions == {"Ahri", "Zed", "Yasuo"}
\* a call of render, highlightNode(node) or resetHighlight
HoverCall(kind, node) == [kind |-> kind, node |-> node]
Rendered == HoverCall("render", "")
\* the transition of a selection: none yet, scheduled, running or ended
Transition(state, call) == [state |-> state, call |-> call]

\* no SynergyGraph is rendered
(***************************************************************************)
(* synergy_graph.js: the constructor.  A JavaScript value is a number,     *)
(* undefined, null or NaN; an options object is a function from its own    *)
(* keys to values.                                                         *)
(***************************************************************************)
Num(n) == [type |-> "number", num |-> n]
Undefined == [type |-> "undefined", num |-> 0]
JsNull == [type |-> "null", num |-> 0]
NaN == [type |-> "NaN", num |-> 0]

\* the object {}
EmptyObject == [k \in {} |-> Undefined]

\* o[k]: undefined when o has no own property k
Get(o, k) == IF k \in DOMAIN o THEN o[k] ELSE Undefined

\* a || b: undefined, null, NaN and 0 are falsy
Or(a, b) == IF a.type # "number" \/ a.num = 0 THEN b ELSE a

\* +v
ToNumber(v) ==
    CASE v.type = "number" -> v
      [] v.type = "null"   -> Num(0)
      [] OTHER             -> NaN

\* {...base, ...o}: the own properties of o override those of base
Spread(base, o) ==
    [k \in DOMAIN base \cup DOMAIN o |-> IF k \in DOMAIN o THEN o[k] ELSE base[k]]

DefaultNodeRadius == 10
DefaultLinkDistance == 100
DefaultChargeStrength == -400
DefaultHeight == 600
\* clientWidth of the container (the layout decides)
ClientWidth == 960

\* the values a caller supplies for a numeric option
SuppliedValues == {Undefined, JsNull} \cup {Num(n) : n \in {0, 25, -200}}

NumericOptions == {"nodeRadius", "linkDistance", "chargeStrength"}

\* the options objects a caller passes: any of the numeric options, and a
\* width and a height of 800 or none
OptionObjects ==
    UNION {{o \in [K -> SuppliedValues \cup {Num(800)}] :
                \A k \in K : IF k \in NumericOptions THEN o[k] \in SuppliedValues
                                                    ELSE o[k] = Num(800)} :
           K \in SUBSET (NumericOptions \cup {"width", "height"})}

\* no SynergyGraph has been constructed
NoInstance == [made |-> FALSE, argType |-> "undefined", arg |-> EmptyObject,
               thrown |-> "", width |-> Undefined, height |-> Undefined,
               options |-> EmptyObject, svg |-> EmptyObject,
               forces |-> EmptyObject]

\* initialize(): the svg and the forces of the simulation; d3 coerces the
\* argument of distance, strength and radius to a number
initialize(this) ==
    [this EXCEPT
        !.svg = [width |-> this.width, height |-> this.height],
        !.forces = [link |-> ToNumber(this.options["linkDistance"]),
                    charge |-> ToNumber(this.options["chargeStrength"]),
                    centerX |-> Num(this.width.num \div 2),
                    centerY |-> Num(this.height.num \div 2),
                    collision |->
                        LET r == ToNumber(this.options["nodeRadius"])
                        IN IF r.type = "number" THEN Num(r.num * 2) ELSE NaN]]

\* new SynergyGraph(containerId, arg): the default `options = {}` replaces
\* only undefined; of null no property can be read, so the constructor throws
SynergyGraph_constructor(argType, arg) ==
    IF argType = "null"
    THEN [NoInstance EXCEPT !.argType = "null", !.thrown = "TypeError"]
    ELSE LET options == IF argType = "undefined" THEN EmptyObject ELSE arg
         IN initialize(
             [made |-> TRUE, argType |-> argType, arg |-> options, thrown |-> "",
              width |-> Or(Get(options, "width"), Num(ClientWidth)),
              height |-> Or(Get(options, "height"), Num(DefaultHeight)),
              options |-> Spread(
                  [nodeRadius |-> Or(Get(options, "nodeRadius"),
                                     Num(DefaultNodeRadius)),
                   linkDistance |-> Or(Get(options, "linkDistance"),
                                       Num(DefaultLinkDistance)),
                   chargeStrength |-> Or(Get(options, "chargeStrength"),
                                         Num(DefaultChargeStrength))],
                  options),
              svg |-> EmptyObject, forces |-> EmptyObject])

NoHover ==
    /\ synergyGraph = NoInstance
    /\ graphData = [links |-> {}]
    /\ nodeAttrs = [n \in Champions |-> [opacity |-> Null]]
    /\ linkAttrs = [l \in {} |-> 0]
    /\ transitions = [sel \in {"nodeElements", "linkElements"} |->
                         Transition("none", Rendered)]
    /\ hovered = <<Rendered, Rendered>>

\* no graph is drawn
NoGraph ==
    /\ NoHover
    /\ graph = ""
    /\ nodes = [n \in Nodes |-> [x |-> 0, y |-> 0, fx |-> Null, fy |-> Null]]
    /\ alphaTarget = 0
    /\ gestures = [p \in Pointers |-> ""]
    /\ lastEvent = ""

DashCards == {"social-graph", "chemistry", "meta", "adaptation",
              "compatibility", "storyteller", "visualizer"}

DashboardIdle ==
    /\ summonerName = ""
    /\ analysisStatus = <<>>
    /\ polled = <<>>
    /\ console = [e \in {} |-> 0]
    /\ indicators = [c \in DashCards |-> "status-dot"]
    /\ chatInput = ""
    /\ chatMessages = <<>>
    /\ metaInput = ""
    /\ metaMessages = <<>>
    /\ fetches = <<>>

(***************************************************************************)
(* demo.js: the page as one record, so that the code's functions are       *)
(* operators from page to page.                                            *)
(***************************************************************************)
Page == [active |-> cardActive, steps |-> stepStatus, out |-> output,
         status |-> pipelineStatus, cont |-> containers,
         calls |-> calls, timers |-> timers, reqs |-> requests]

\* what a function that may throw hands back: the page and the message of
\* the error it threw ("" when it returned)
Returned(st) == [st |-> st, error |-> ""]
Threw(st, message) == [st |-> st, error |-> message]

sleep(st, ms, id) ==
    [st EXCEPT !.timers = Append(@, [rem |-> ms, kind |-> "sleep", ref |-> id])]

SetPc(st, id, pc) == [st EXCEPT !.calls[id].pc = pc]

(***************************************************************************)
(* The renderers.  d3's selection.data(v) and Array.prototype.map throw a  *)
(* TypeError when v is undefined or no array; a library that was not       *)
(* loaded is a ReferenceError at its first use.                            *)
(***************************************************************************)
\* visualizations.js createForceDirectedGraph: reads graphData.nodes and
\* graphData.links
createForceDirectedGraph(st, containerId, fields) ==
    IF "d3" \notin loaded
    THEN Threw(st, "d3 is not defined")
    ELSE IF "links" \notin fields \/ "nodes" \notin fields
    THEN Threw([st EXCEPT !.cont[containerId] = "svg"],
               "undefined is not iterable")
    ELSE Returned([st EXCEPT !.cont[containerId] = "force-directed graph"])

\* visualizations.js createHeatmap: heatmapData.map(d => d.patch), d.win_rate
createHeatmap(st, containerId, data) ==
    IF "d3" \notin loaded
    THEN Threw(st, "d3 is not defined")
    ELSE IF data.kind # "array"
    THEN Threw([st EXCEPT !.cont[containerId] = "svg"],
               "heatmapData.map is not a function")
    ELSE Returned([st EXCEPT !.cont[containerId] = "heatmap"])

\* demo.js createTimeline: d3.extent(data, d => new Date(d.date)), d.value
createTimeline(st, containerId, data) ==
    IF "d3" \notin loaded
    THEN Threw(st, "d3 is not defined")
    ELSE IF data.kind # "array"
    THEN Threw([st EXCEPT !.cont[containerId] = "svg"],
               "values is not iterable")
    ELSE Returned([st EXCEPT !.cont[containerId] = "timeline"])

\* demo.js createCompositionBar: data.map(d => d.name), d.winRate
createCompositionBar(st, containerId, data) ==
    IF "d3" \notin loaded
    THEN Threw(st, "d3 is not defined")
    ELSE IF data.kind # "array"
    THEN Threw([st EXCEPT !.cont[containerId] = "svg"],
               "data.map is not a function")
    ELSE Returned([st EXCEPT !.cont[containerId] = "composition bar"])

\* demo.js createChemistryRadar: data.pairs.map(...)
createChemistryRadar(st, data) ==
    IF "Chart" \notin loaded
    THEN Threw(st, "Chart is not defined")
    ELSE IF "pairs" \notin data.fields
    THEN Threw(st, "Cannot read properties of undefined (reading 'map')")
    ELSE Returned([st EXCEPT !.cont["chemistryChart"] = "radar chart"])

\* demo.js createAdaptationLine: data.patches, data.win_rates,
\* data.adaptation_speeds go to Chart as they are
createAdaptationLine(st, data) ==
    IF "Chart" \notin loaded
    THEN Threw(st, "Chart is not defined")
    ELSE Returned([st EXCEPT !.cont["adaptationChart"] = "line chart"])

\* the fields each renderer reads from its data
ReadsOf(renderer) ==
    CASE renderer = "createForceDirectedGraph" -> {"nodes", "links"}
      [] renderer = "createHeatmap"            -> {"patch", "win_rate"}
      [] renderer = "createTimeline"           -> {"date", "value"}
      [] renderer = "createCompositionBar"     -> {"name", "winRate"}

\* the renderer renderVisualization chooses
RendererOf(type) ==
    CASE type = "synergy"     -> "createForceDirectedGraph"
      [] type = "heatmap"     -> "createHeatmap"
      [] type = "timeline"    -> "createTimeline"
      [] type = "composition" -> "createCompositionBar"

renderVisualization(st, type, data) ==
    CASE type = "synergy"     -> createForceDirectedGraph(st, "vizCanvas", data.fields)
      [] type = "heatmap"     -> createHeatmap(st, "vizCanvas", data)
      [] type = "timeline"    -> createTimeline(st, "vizCanvas", data)
      [] type = "composition" -> createCompositionBar(st, "vizCanvas", data)
      [] OTHER                -> Returned(st)

(***************************************************************************)
(* executeAgent, from the moment its mock generator has returned `data`:   *)
(* the output pane is written first, then the renderer runs.               *)
(***************************************************************************)
executeAgentBody(st, agentType, arg, data) ==
    LET n == agentMap[agentType]
        shown == [st EXCEPT !.out[n] = JsonPane(data)]
    IN CASE agentType = "social_graph" ->
              createForceDirectedGraph(shown, "graphViz1",
                  {"nodes" : x \in data.fields \cap {"nodes"}} \cup
                  {"links" : x \in data.fields \cap {"edges"}})
         [] agentType = "chemistry" -> createChemistryRadar(shown, data)
         [] agentType = "meta" -> Returned(shown)
         [] agentType = "adaptation" -> createAdaptationLine(shown, data)
         [] agentType = "compatibility" -> Returned(shown)
         [] agentType = "storyteller" ->
              Returned([st EXCEPT !.out[n] = TextPane(data)])
         [] agentType = "visualizer" -> renderVisualization(shown, arg, data)

\* the select executeAgent reads before it awaits its mock generator
SelectRead(agentType) ==
    CASE agentType = "meta"        -> patchSelect
      [] agentType = "storyteller" -> insightType
      [] agentType = "visualizer"  -> vizType
      [] OTHER                     -> ""

\* the value the agent's mock generator resolves to
MockResult(agentType, arg) ==
    CASE agentType = "social_graph"  -> mockGraphData
      [] agentType = "chemistry"     -> mockChemistryData
      [] agentType = "meta"          -> mockMetaData(arg)
      [] agentType = "adaptation"    -> mockAdaptationData
      [] agentType = "compatibility" -> mockCompositionData
      [] agentType = "storyteller"   -> mockNarrative(arg)
      [] agentType = "visualizer"    -> mockVizData(arg)

\* a variant of executeAgent that asks the API for its data
executeAgentFetching(st, id) ==
    LET arg == SelectRead(st.calls[id].agent)
    IN sleep([st EXCEPT !.calls[id].arg = arg, !.calls[id].pc = "mock",
                        !.reqs = Append(@, [method |-> "GET",
                                            url |-> "/api/v1" \o "/synergy/graph/1",
                                            by |-> id])],
             MockDelay, id)

\* executeAgent up to its first await: every mock generator starts with
\* await sleep(500)
executeAgent(st, id) ==
    LET arg == SelectRead(st.calls[id].agent)
    IN sleep([st EXCEPT !.calls[id].arg = arg, !.calls[id].pc = "mock"],
             MockDelay, id)

\* `await runAgent(agent)` in runFullPipeline: once the run has settled the
\* pipeline goes on to `await sleep(2000)`
AwaitRunAgent(st, id) ==
    LET parent == st.calls[id].parent
    IN IF parent = 0 THEN st
       ELSE sleep(SetPc(st, parent, "pause"), PipelinePause, parent)

\* runAgent's catch: the error message replaces the output pane
CatchError(st, n, r) ==
    IF r.error = "" THEN r.st
    ELSE [r.st EXCEPT !.out[n] = ErrorPane(r.error)]

\* a variant of runAgent without its finally block
FinallyNothing(st, n) == st

\* runAgent's finally: the card loses 'active' 2000 ms later
Finally(st, n) ==
    [st EXCEPT !.timers = Append(@, [rem |-> RemoveActiveDelay,
                                     kind |-> "removeActive", ref |-> n])]

\* a variant of runAgent without its catch: the error rejects the promise of
\* runAgent, and with it the promise of the runFullPipeline awaiting it
ResumeAgentUncaught(st, id) ==
    LET c == st.calls[id]
        n == agentMap[c.agent]
        r == executeAgentBody(st, c.agent, c.arg, MockResult(c.agent, c.arg))
        settled == SetPc(Finally(r.st, n), id, "done")
    IN IF r.error = "" THEN AwaitRunAgent(settled, id)
       ELSE IF c.parent = 0 THEN settled
       ELSE SetPc(settled, c.parent, "done")

\* runAgent from the moment the mock generator of executeAgent has resolved:
\* the rest of executeAgent, then catch and finally, then the promise settles
ResumeAgent(st, id) ==
    LET c == st.calls[id]
        n == agentMap[c.agent]
        r == executeAgentBody(st, c.agent, c.arg, MockResult(c.agent, c.arg))
        caught == CatchError(st, n, r)
        settled == SetPc(Finally(caught, n), id, "done")
    IN AwaitRunAgent(settled, id)

\* mockVizData after its own sleep: 'synergy' awaits mockGraphData, which
\* sleeps once more
MockResumed(st, id) ==
    LET c == st.calls[id]
    IN IF c.agent = "visualizer" /\ c.arg = "synergy"
       THEN sleep(SetPc(st, id, "mock2"), MockDelay, id)
       ELSE ResumeAgent(st, id)

\* a variant of the loop head that stops one step early
StepLoopOffByOne(st, id) ==
    IF st.calls[id].i < NumSteps
    THEN sleep(SetPc(st, id, "sleep800"), SleepBeforeRunning, id)
    ELSE executeAgent(st, id)

\* the head of runAgent's for loop
StepLoop(st, id) ==
    IF st.calls[id].i <= NumSteps
    THEN sleep(SetPc(st, id, "sleep800"), SleepBeforeRunning, id)
    ELSE executeAgent(st, id)

\* a variant that marks every step still pending as running
StepRunningAll(st, id) ==
    LET c == st.calls[id]
    IN sleep([st EXCEPT !.steps[agentMap[c.agent]] =
                            [i \in Steps |-> IF i >= c.i THEN "Running" ELSE @[i]],
                        !.calls[id].pc = "sleep1200"],
             SleepBeforeComplete, id)

\* after `await sleep(800)`
StepRunning(st, id) ==
    LET c == st.calls[id]
    IN sleep([st EXCEPT !.steps[agentMap[c.agent]][c.i] = "Running",
                        !.calls[id].pc = "sleep1200"],
             SleepBeforeComplete, id)

\* after `await sleep(1200)`
StepComplete(st, id) ==
    LET c == st.calls[id]
    IN StepLoop([st EXCEPT !.steps[agentMap[c.agent]][c.i] = "Complete",
                           !.calls[id].i = c.i + 1], id)

\* the record of an invocation: `during` holds the user's invocations that
\* were in flight when this one started
Call(op, agent, parent, during) ==
    [op |-> op, agent |-> agent, pc |-> "start", i |-> 1, arg |-> "",
     parent |-> parent, during |-> during]

\* runAgent up to its first await
runAgent(st, agentType, parent, during) ==
    LET n == agentMap[agentType]
        id == Len(st.calls) + 1
    IN StepLoop([st EXCEPT !.active[n] = TRUE,
                           !.steps[n] = [i \in Steps |-> "Pending"],
                           !.out[n] = Processing,
                           !.calls = Append(@, Call("runAgent", agentType,
                                                    parent, during))],
                id)

\* a variant of the loop that calls runAgent without awaiting it
PipelineLoopNoAwait(st, id, k) ==
    IF k <= Len(agents)
    THEN LET started == runAgent([st EXCEPT !.status = Append(@, ExecutingLine(agents[k])),
                                            !.calls[id].i = k,
                                            !.calls[id].agent = agents[k]],
                                 agents[k], 0, {})
         IN sleep(SetPc(started, id, "pause"), PipelinePause, id)
    ELSE [st EXCEPT !.status = Append(@, CompleteLine),
                    !.calls[id].pc = "done"]

\* one turn of runFullPipeline's for loop, or the line after the loop
PipelineLoop(st, id, k) ==
    IF k <= Len(agents)
    THEN runAgent([st EXCEPT !.status = Append(@, ExecutingLine(agents[k])),
                             !.calls[id].i = k,
                             !.calls[id].agent = agents[k],
                             !.calls[id].pc = "await"],
                  agents[k], id, {})
    ELSE [st EXCEPT !.status = Append(@, CompleteLine),
                    !.calls[id].pc = "done"]

\* runFullPipeline up to its first await
runFullPipeline(st, during) ==
    PipelineLoop([st EXCEPT !.status = <<StartingLine>>,
                            !.calls = Append(@, Call("runFullPipeline", "",
                                                     0, during))],
                 Len(st.calls) + 1, 1)

\* after `await sleep(2000)` in runFullPipeline
PipelineResumed(st, id) == PipelineLoop(st, id, st.calls[id].i + 1)

\* a variant of resetDemo that cancels what is in flight
resetDemoCancelling(st, during) ==
    [st EXCEPT !.active = [n \in Cards |-> FALSE],
               !.steps = [n \in Cards |-> [i \in Steps |-> "Pending"]],
               !.out = [n \in Cards |-> Placeholder],
               !.status = <<ReadyLine>>,
               !.timers = <<>>,
               !.calls = Append([id \in DOMAIN @ |-> [@[id] EXCEPT !.pc = "done"]],
                                [Call("resetDemo", "", 0, during)
                                 EXCEPT !.pc = "done"])]

\* a variant of resetDemo that leaves the class list of the cards alone
resetDemoKeepingActive(st, during) ==
    [st EXCEPT !.steps = [n \in Cards |-> [i \in Steps |-> "Pending"]],
               !.out = [n \in Cards |-> Placeholder],
               !.status = <<ReadyLine>>,
               !.calls = Append(@, [Call("resetDemo", "", 0, during)
                                    EXCEPT !.pc = "done"])]

resetDemo(st, during) ==
    [st EXCEPT !.active = [n \in Cards |-> FALSE],
               !.steps = [n \in Cards |-> [i \in Steps |-> "Pending"]],
               !.out = [n \in Cards |-> Placeholder],
               !.status = <<ReadyLine>>,
               !.calls = Append(@, [Call("resetDemo", "", 0, during)
                                    EXCEPT !.pc = "done"])]

(***************************************************************************)
(* Timers.                                                                 *)
(***************************************************************************)
\* the timer that fires next: the earliest deadline, the oldest among equals
NextTimer(ts) ==
    CHOOSE j \in DOMAIN ts :
        /\ \A k \in DOMAIN ts : ts[j].rem <= ts[k].rem
        /\ \A k \in 1..(j - 1) : ts[k].rem > ts[j].rem

\* the timers left once timer j has fired
Elapsed(ts, j) ==
    [k \in 1..(Len(ts) - 1) |->
        LET t == IF k < j THEN ts[k] ELSE ts[k + 1]
        IN [t EXCEPT !.rem = @ - ts[j].rem]]

\* the callback of timer t run on page st
Callback(st, t) ==
    IF t.kind = "removeActive"
    THEN [st EXCEPT !.active[t.ref] = FALSE]
    ELSE LET pc == st.calls[t.ref].pc
         IN CASE pc = "sleep800"  -> StepRunning(st, t.ref)
              [] pc = "sleep1200" -> StepComplete(st, t.ref)
              [] pc = "mock"      -> MockResumed(st, t.ref)
              [] pc = "mock2"     -> ResumeAgent(st, t.ref)
              [] pc = "pause"     -> PipelineResumed(st, t.ref)

UserCalls == {id \in DOMAIN calls : calls[id].parent = 0}
\* the user's invocations whose promise has not settled
InFlight == {id \in UserCalls : calls[id].pc # "done"}

SetPage(st) ==
    /\ cardActive' = st.active
    /\ stepStatus' = st.steps
    /\ output' = st.out
    /\ pipelineStatus' = st.status
    /\ containers' = st.cont
    /\ calls' = st.calls
    /\ timers' = st.timers
    /\ requests' = st.reqs
    /\ UNCHANGED <<vizType, insightType, patchSelect, loaded>>
    /\ UNCHANGED <<mainVars, dragVars, hoverVars, instanceVars>>

(***************************************************************************)
(* The demo page: its initial state and its events.                        *)
(***************************************************************************)
PageInit ==
    /\ cardActive = [n \in Cards |-> FALSE]
    /\ stepStatus = [n \in Cards |-> [i \in Steps |-> "Pending"]]
    /\ output = [n \in Cards |-> Placeholder]
    /\ pipelineStatus = <<ReadyLine>>
    /\ containers = [c \in {"graphViz1", "vizCanvas", "chemistryChart",
                            "adaptationChart"} |-> ""]
    /\ calls = <<>>
    /\ timers = <<>>
    /\ vizType \in VizTypes
    /\ insightType \in InsightTypes
    /\ patchSelect \in Patches
    /\ requests = <<>>
    /\ DashboardIdle
    /\ NoGraph

\* the demo page with its libraries loaded
DemoInit == PageInit /\ loaded = Libs

\* the user clicks the Run button of an agent card
ClickRunAgent(agentType) ==
    /\ Cardinality(UserCalls) < MaxCalls
    /\ SetPage(runAgent(Page, agentType, 0, InFlight))

\* the user clicks Run Full Pipeline
ClickRunFullPipeline ==
    /\ Cardinality(UserCalls) < MaxCalls
    /\ SetPage(runFullPipeline(Page, InFlight))

\* the user clicks Reset
ClickResetDemo ==
    /\ Cardinality(UserCalls) < MaxCalls
    /\ SetPage(resetDemo(Page, InFlight))

\* the next timer fires
TimerFires ==
    /\ timers # <<>>
    /\ LET j == NextTimer(timers)
       IN SetPage(Callback([Page EXCEPT !.timers = Elapsed(timers, j)],
                           timers[j]))

DemoNext ==
    \/ \E a \in AgentTypes : ClickRunAgent(a)
    \/ ClickRunFullPipeline
    \/ ClickResetDemo
    \/ TimerFires

\* the demo page under any clicks of the user, each click falling between
\* two timer callbacks
SpecDemo == DemoInit /\ [][DemoNext]_vars

(***************************************************************************)
(* One run of the full pipeline with nothing else going on, on a page      *)
(* where any of the libraries may be missing.  A browser fires every timer *)
(* that is due, hence the fairness.                                        *)
(***************************************************************************)
PipelineInit == PageInit /\ loaded \in SUBSET Libs

StartPipeline ==
    /\ calls = <<>>
    /\ SetPage(runFullPipeline(Page, {}))

PipelineNext ==
    \/ StartPipeline
    \/ TimerFires

SpecPipeline == PipelineInit /\ [][PipelineNext]_vars /\ WF_vars(TimerFires)

(***************************************************************************)
(* main.js and meta_chat.js.  A fetch settles in a macrotask of its own,   *)
(* and so does response.json(); the network decides how.                   *)
(***************************************************************************)
API_BASE_URL == "/api/v1"

Names == {"", "Faker"}
ChatTexts == {"", "  ", "hi "}
\* String.prototype.trim on the texts above
Trim(text) == CASE text = "hi " -> "hi" [] text = "  " -> "" [] OTHER -> text


\* bodies of a health response: no services field, or a services object,
\* here the set of its entries
HealthBodies ==
    {[hasServices |-> FALSE, services |-> {}],
     [hasServices |-> TRUE, services |-> {}],
     [hasServices |-> TRUE, services |-> {<<"api", "operational">>,
                                          <<"neptune", "degraded">>}],
     [hasServices |-> TRUE, services |-> {<<"api", "degraded">>,
                                          <<"sagemaker", "operational">>,
                                          <<"redis", "operational">>}],
     [hasServices |-> TRUE, services |-> {<<"bedrock", "Operational">>,
                                          <<"redis", "degraded">>}]}

\* the body may also be the JSON value null, of which no field can be read
AnalyzeBodies ==
    {[isNull |-> FALSE, analysis_id |-> "a-1", estimated_time |-> "3 minutes",
      detail |-> "undefined"],
     [isNull |-> FALSE, analysis_id |-> "undefined", estimated_time |-> "undefined",
      detail |-> "Rate limited"],
     [isNull |-> TRUE, analysis_id |-> "", estimated_time |-> "", detail |-> ""]}

ChatBodies == {[isNull |-> FALSE, response |-> "Play around objectives."],
               [isNull |-> TRUE, response |-> ""]}

FetchError == "Failed to fetch"
NullError == "Cannot read properties of null"
ParseError == "Unexpected token < in JSON at position 0"

ValidationMessage == "Please enter a summoner name"
AnalyzingMessage == "Analyzing... This may take 2-5 minutes"
ChatApology == "Sorry, I encountered an error. Please try again."
MetaApology == "Sorry, an error occurred."

Dash == [name |-> summonerName, status |-> analysisStatus, polled |-> polled,
         console |-> console, ind |-> indicators,
         chatIn |-> chatInput, chatMsgs |-> chatMessages,
         metaIn |-> metaInput, metaMsgs |-> metaMessages,
         fetches |-> fetches, reqs |-> requests]

SetDash(d) ==
    /\ summonerName' = d.name
    /\ analysisStatus' = d.status
    /\ polled' = d.polled
    /\ console' = d.console
    /\ indicators' = d.ind
    /\ chatInput' = d.chatIn
    /\ chatMessages' = d.chatMsgs
    /\ metaInput' = d.metaIn
    /\ metaMessages' = d.metaMsgs
    /\ fetches' = d.fetches
    /\ requests' = d.reqs
    /\ UNCHANGED <<demoVars, dragVars, hoverVars, instanceVars>>

Log(d, level, text) ==
    [d EXCEPT !.console = [e \in DOMAIN @ \cup {<<level, text>>} |->
                              IF e \in DOMAIN @
                              THEN @[e] + (IF e = <<level, text>> THEN 1 ELSE 0)
                              ELSE 1]]

\* fetch(url, {method}) called by operation op: the request goes out and the
\* operation waits for it
Fetch(d, op, method, url, arg) ==
    [d EXCEPT !.reqs = Append(@, [method |-> method, url |-> url,
                                  by |-> Len(d.fetches) + 1]),
              !.fetches = Append(@, [op |-> op, pc |-> "fetch", arg |-> arg,
                                     ok |-> FALSE])]

\* the operation is over: it returned, or its catch block ran
Over(d, id, how) == [d EXCEPT !.fetches[id].pc = how]

\* a variant of checkSystemHealth that asks another path
checkSystemHealthWrongPath(d) ==
    Fetch(d, "checkSystemHealth", "GET", API_BASE_URL \o "/status", "")

\* ---- checkSystemHealth
checkSystemHealth(d) ==
    Fetch(d, "checkSystemHealth", "GET", API_BASE_URL \o "/health", "")

agentMapping(service) ==
    CASE service = "api"       -> "social-graph"
      [] service = "neptune"   -> "chemistry"
      [] service = "sagemaker" -> "adaptation"
      [] service = "bedrock"   -> "storyteller"
      [] OTHER                 -> "undefined"

\* the indicator of a card that is not in the page or has no .status-dot:
\* querySelector returns null for it
NoDot == "(no status dot)"

\* a variant of updateAgentStatus that compares the status loosely
updateAgentStatusLoosely(d, services) ==
    [d EXCEPT !.ind = [c \in DashCards |->
        IF @[c] # NoDot /\ \E e \in services : agentMapping(e[1]) = c
        THEN LET e == CHOOSE e \in services : agentMapping(e[1]) = c
             IN IF e[2] \in {"operational", "Operational"}
                THEN "status-dot status-active"
                ELSE "status-dot status-inactive"
        ELSE @[c]]]

\* updateAgentStatus on a services object given by its entries
updateAgentStatus(d, services) ==
    [d EXCEPT !.ind = [c \in DashCards |->
        IF @[c] # NoDot /\ \E e \in services : agentMapping(e[1]) = c
        THEN LET e == CHOOSE e \in services : agentMapping(e[1]) = c
             IN IF e[2] = "operational"
                THEN "status-dot status-active"
                ELSE "status-dot status-inactive"
        ELSE @[c]]]

\* a variant of the catch block that swallows the error
HealthCatchSilent(d, id) == Over(d, id, "caught")

HealthCatch(d, id) ==
    Over(Log(d, "error", "Health check failed:"), id, "caught")

\* after `await response.json()`: Object.entries(undefined) throws
HealthParsed(d, id, body) ==
    LET logged == Log(d, "log", "System Health:")
    IN IF body.hasServices
       THEN Over(updateAgentStatus(logged, body.services), id, "done")
       ELSE HealthCatch(logged, id)

\* ---- initializeDashboard, loadLatestInsights
initializeDashboard(d) ==
    Log(checkSystemHealth(Log(d, "log", "SynergyScope Dashboard Initialized")),
        "log", "Loading latest insights...")

\* ---- analyzeSummoner, pollAnalysisStatus
pollAnalysisStatus(d, analysisId) ==
    [Log(d, "log", "Polling analysis status:") EXCEPT !.polled = Append(@, analysisId)]

\* a variant of analyzeSummoner without the check of the name
analyzeSummonerUnchecked(d) ==
    Fetch([d EXCEPT !.status = <<AnalyzingMessage>>],
          "analyzeSummoner", "POST", API_BASE_URL \o "/summoner/analyze",
          d.name)

analyzeSummoner(d) ==
    IF d.name = ""
    THEN [d EXCEPT !.status = <<ValidationMessage>>]
    ELSE Fetch([d EXCEPT !.status = <<AnalyzingMessage>>],
               "analyzeSummoner", "POST", API_BASE_URL \o "/summoner/analyze",
               d.name)

\* a variant of the catch block that sends the request once more
AnalyzeCatchRetrying(d, id, message) ==
    Over([d EXCEPT !.status = <<AnalyzingMessage>>,
                   !.reqs = Append(@, [method |-> "POST",
                                       url |-> API_BASE_URL \o "/summoner/analyze",
                                       by |-> id])],
         id, "fetch")

AnalyzeCatch(d, id, message) ==
    Over([d EXCEPT !.status = <<"Error: " \o message>>], id, "caught")

\* a variant that polls whatever the status of the response
AnalyzeParsedPollingAlways(d, id, body) ==
    IF body.isNull THEN AnalyzeCatch(d, id, NullError)
    ELSE Over(pollAnalysisStatus(
                  [d EXCEPT !.status = IF d.fetches[id].ok
                                       THEN <<"Analysis Started!",
                                              "Analysis ID: " \o body.analysis_id,
                                              "Estimated time: " \o body.estimated_time>>
                                       ELSE <<"Analysis failed: " \o body.detail>>],
                  body.analysis_id), id, "done")

\* after `await response.json()`: reading data.analysis_id or data.detail
\* of null throws inside the try block
AnalyzeParsed(d, id, body) ==
    IF body.isNull THEN AnalyzeCatch(d, id, NullError)
    ELSE IF d.fetches[id].ok
    THEN Over(pollAnalysisStatus(
                  [d EXCEPT !.status = <<"Analysis Started!",
                                         "Analysis ID: " \o body.analysis_id,
                                         "Estimated time: " \o body.estimated_time>>],
                  body.analysis_id), id, "done")
    ELSE Over([d EXCEPT !.status = <<"Analysis failed: " \o body.detail>>],
              id, "done")

\* ---- sendChatMessage
sendChatMessage(d) ==
    LET message == Trim(d.chatIn)
    IN IF message = "" THEN d
       ELSE Fetch([d EXCEPT !.chatMsgs = Append(@, <<"user", message>>),
                            !.chatIn = ""],
                  "sendChatMessage", "POST", API_BASE_URL \o "/meta/chat",
                  message)

\* a variant of the catch block that only logs
ChatCatchLoggingOnly(d, id) ==
    Over(Log(d, "error", "Chat error:"), id, "caught")

ChatCatch(d, id) ==
    Over([Log(d, "error", "Chat error:")
          EXCEPT !.chatMsgs = Append(@, <<"bot", ChatApology>>)], id, "caught")

ChatParsed(d, id, body) ==
    IF body.isNull THEN ChatCatch(d, id)
    ELSE Over([d EXCEPT !.chatMsgs = Append(@, <<"bot", body.response>>)], id, "done")

\* ---- MetaChat.sendMessage, MetaChat.addMessage
addMessage(d, text, sender) ==
    [d EXCEPT !.metaMsgs = Append(@, <<sender, text>>)]

\* a variant of sendMessage that does not trim the input
sendMessageUntrimmed(d) ==
    LET message == d.metaIn
    IN IF message = "" THEN d
       ELSE Fetch([addMessage(d, message, "user") EXCEPT !.metaIn = ""],
                  "MetaChat.sendMessage", "POST", "/api/v1/meta/chat", message)

sendMessage(d) ==
    LET message == Trim(d.metaIn)
    IN IF message = "" THEN d
       ELSE Fetch([addMessage(d, message, "user") EXCEPT !.metaIn = ""],
                  "MetaChat.sendMessage", "POST", "/api/v1/meta/chat", message)

MetaCatch(d, id) == Over(addMessage(d, MetaApology, "bot"), id, "caught")

MetaParsed(d, id, body) ==
    IF body.isNull THEN MetaCatch(d, id)
    ELSE Over(addMessage(d, body.response, "bot"), id, "done")

\* ---- the keypress listener of the document
keypress(d, key, activeElement) ==
    IF key # "Enter" THEN d
    ELSE IF activeElement \in {"summonerName", "region"} THEN analyzeSummoner(d)
    ELSE IF activeElement = "chatInput" THEN sendChatMessage(d)
    ELSE d

\* the catch block of the operation that call id belongs to
Catch(d, id, message) ==
    LET op == d.fetches[id].op
    IN CASE op = "checkSystemHealth"    -> HealthCatch(d, id)
         [] op = "analyzeSummoner"      -> AnalyzeCatch(d, id, message)
         [] op = "sendChatMessage"      -> ChatCatch(d, id)
         [] op = "MetaChat.sendMessage" -> MetaCatch(d, id)

BodiesOf(op) ==
    CASE op = "checkSystemHealth" -> HealthBodies
      [] op = "analyzeSummoner"   -> AnalyzeBodies
      [] OTHER                    -> ChatBodies

Parsed(d, id, body) ==
    LET op == d.fetches[id].op
    IN CASE op = "checkSystemHealth"    -> HealthParsed(d, id, body)
         [] op = "analyzeSummoner"      -> AnalyzeParsed(d, id, body)
         [] op = "sendChatMessage"      -> ChatParsed(d, id, body)
         [] op = "MetaChat.sendMessage" -> MetaParsed(d, id, body)

\* an operation that would fetch may start
MayFetch == Len(fetches) < MaxFetches

(***************************************************************************)
(* The dashboard: its events.                                              *)
(***************************************************************************)
\* the demo page, untouched
DemoIdle ==
    /\ cardActive = [n \in Cards |-> FALSE]
    /\ stepStatus = [n \in Cards |-> [i \in Steps |-> "Pending"]]
    /\ output = [n \in Cards |-> Placeholder]
    /\ pipelineStatus = <<ReadyLine>>
    /\ containers = [c \in {"graphViz1", "vizCanvas", "chemistryChart",
                            "adaptationChart"} |-> ""]
    /\ calls = <<>>
    /\ timers = <<>>
    /\ vizType = "synergy"
    /\ insightType = "synergy"
    /\ patchSelect = "14.21"
    /\ loaded = Libs

DashboardInit ==
    /\ DashboardIdle
    /\ requests = <<>>
    /\ DemoIdle
    /\ NoGraph

\* the page calls initializeDashboard
InitializeDashboard ==
    /\ MayFetch
    /\ SetDash(initializeDashboard(Dash))

\* the user has typed text into the element that has the focus and presses
\* a key (a select takes no text)
KeyPress(key, activeElement, text) ==
    /\ MayFetch
    /\ activeElement = "summonerName" => text \in Names
    /\ activeElement = "chatInput" => text \in ChatTexts
    /\ activeElement \notin {"summonerName", "chatInput"} => text = ""
    /\ SetDash(keypress(
           CASE activeElement = "summonerName" -> [Dash EXCEPT !.name = text]
             [] activeElement = "chatInput"    -> [Dash EXCEPT !.chatIn = text]
             [] OTHER                          -> Dash,
           key, activeElement))

\* the user has typed text into the input of the MetaChat container and
\* clicks its send button or presses Enter
MetaChatSend(text) ==
    /\ MayFetch
    /\ SetDash(sendMessage([Dash EXCEPT !.metaIn = text]))

\* a fetch rejects
FetchRejects(id) ==
    /\ fetches[id].pc = "fetch"
    /\ SetDash(Catch(Dash, id, FetchError))

\* a fetch resolves with a response, whose ok is given
FetchResolves(id, ok) ==
    /\ fetches[id].pc = "fetch"
    /\ SetDash([Dash EXCEPT !.fetches[id].pc = "json", !.fetches[id].ok = ok])

\* response.json() rejects
JsonRejects(id) ==
    /\ fetches[id].pc = "json"
    /\ SetDash(Catch(Dash, id, ParseError))

\* response.json() resolves
JsonResolves(id, body) ==
    /\ fetches[id].pc = "json"
    /\ body \in BodiesOf(fetches[id].op)
    /\ SetDash(Parsed(Dash, id, body))

DashboardNext ==
    \/ InitializeDashboard
    \/ \E key \in {"Enter", "a"},
          el \in {"summonerName", "region", "chatInput", "body"},
          text \in Names \cup ChatTexts :
           KeyPress(key, el, text)
    \/ \E text \in ChatTexts : MetaChatSend(text)
    \/ \E id \in DOMAIN fetches : FetchRejects(id)
    \/ \E id \in DOMAIN fetches, ok \in BOOLEAN : FetchResolves(id, ok)
    \/ \E id \in DOMAIN fetches : JsonRejects(id)
    \/ \E id \in DOMAIN fetches :
           \E body \in HealthBodies \cup AnalyzeBodies \cup ChatBodies :
               JsonResolves(id, body)

SpecDashboard == DashboardInit /\ [][DashboardNext]_vars

(***************************************************************************)
(* The health check alone, on pages that lack some of the status dots.     *)
(***************************************************************************)
HealthInit ==
    /\ summonerName = ""
    /\ analysisStatus = <<>>
    /\ polled = <<>>
    /\ console = [e \in {} |-> 0]
    /\ indicators \in [DashCards -> {"status-dot", NoDot}]
    /\ \A c \in DashCards : agentMapping("api") # c /\ agentMapping("neptune") # c
                            /\ agentMapping("sagemaker") # c
                            /\ agentMapping("bedrock") # c
                                => indicators[c] = "status-dot"
    /\ chatInput = ""
    /\ chatMessages = <<>>
    /\ metaInput = ""
    /\ metaMessages = <<>>
    /\ fetches = <<>>
    /\ requests = <<>>
    /\ DemoIdle
    /\ NoGraph

HealthNext ==
    \/ InitializeDashboard
    \/ \E id \in DOMAIN fetches : FetchRejects(id)
    \/ \E id \in DOMAIN fetches, ok \in BOOLEAN : FetchResolves(id, ok)
    \/ \E id \in DOMAIN fetches : JsonRejects(id)
    \/ \E id \in DOMAIN fetches, body \in HealthBodies : JsonResolves(id, body)

SpecHealth == HealthInit /\ [][HealthNext]_vars

(***************************************************************************)
(* What the claims speak of.                                               *)
(***************************************************************************)
\* no invocation of the user is in flight
Quiescent == InFlight = {}

\* the pane shows an error message
IsError(pane) ==
    pane.html \notin {"json", "text", Placeholder.html, Processing.html}

\* what runAgent leaves in the output pane of its agent
FinalPane(agentType) ==
    LET arg == SelectRead(agentType)
        r == executeAgentBody(Page, agentType, arg, MockResult(agentType, arg))
    IN CatchError(Page, agentMap[agentType], r).out[agentMap[agentType]]

\* status lines of one whole pipeline run
ExpectedStatus ==
    <<StartingLine>> \o [k \in 1..Len(agents) |-> ExecutingLine(agents[k])]
                     \o <<CompleteLine>>

CompleteCount ==
    Cardinality({k \in DOMAIN pipelineStatus : pipelineStatus[k] = CompleteLine})

\* the runs of runAgent that pipeline p has started
Kids(p) == {id \in DOMAIN calls : calls[id].parent = p}

\* the step statuses, output panes and pipeline status on the page
Visible == [steps |-> stepStatus, out |-> output, status |-> pipelineStatus]

\* the page after the invocations cs[1..k] have run one after another, each
\* to its end
RECURSIVE SeqPage(_, _)
SeqPage(cs, k) ==
    IF k = 0
    THEN [steps |-> [n \in Cards |-> [i \in Steps |-> "Pending"]],
          out |-> [n \in Cards |-> Placeholder],
          status |-> <<ReadyLine>>]
    ELSE LET prev == SeqPage(cs, k - 1)
             c == cs[k]
         IN CASE c.op = "runAgent" ->
                   [prev EXCEPT !.steps[agentMap[c.agent]] = [i \in Steps |-> "Complete"],
                                !.out[agentMap[c.agent]] = FinalPane(c.agent)]
              [] c.op = "runFullPipeline" ->
                   [steps |-> [n \in Cards |-> [i \in Steps |-> "Complete"]],
                    out |-> [n \in Cards |-> FinalPane(agents[n])],
                    status |-> ExpectedStatus]
              [] c.op = "resetDemo" -> SeqPage(cs, 0)

\* the user's invocations in the order they were started
UserSeq == SelectSeq(calls, LAMBDA c : c.parent = 0)

Perms(n) == {f \in [1..n -> 1..n] : \A a, b \in 1..n : a # b => f[a] # f[b]}

\* no reset was started while a run was in flight, and no pipeline while
\* another pipeline was in flight
NoInterference ==
    \A id \in UserCalls :
        /\ calls[id].op = "resetDemo" => calls[id].during = {}
        /\ calls[id].op = "runFullPipeline" =>
               \A j \in calls[id].during : calls[j].op # "runFullPipeline"

PageIsReset == Visible = SeqPage(<<>>, 0)

Resets == {id \in UserCalls : calls[id].op = "resetDemo"}

\* call id, or the runAgent it awaits, waits for a timer
HasTimer(id) ==
    \E k \in DOMAIN timers :
        /\ timers[k].kind = "sleep"
        /\ \/ timers[k].ref = id
           \/ calls[timers[k].ref].parent = id

(***************************************************************************)
(* C4.  The demo runs on mock data only: in every state of the demo page   *)
(* no network request has been issued, and every output pane that shows    *)
(* data shows the value of its agent's mock generator.                     *)
(***************************************************************************)
C4_DemoUsesMockDataOnly ==
    /\ requests = <<>>
    /\ \A a \in AgentTypes :
           output[agentMap[a]].html \in {"json", "text"} =>
               output[agentMap[a]].data = MockResult(a, SelectRead(a))

\* every agent type has shown its data on some page
C4_Witness ==
    /\ Quiescent
    /\ \E id \in DOMAIN calls : calls[id].op = "runFullPipeline"
    /\ \A a \in AgentTypes \ {"visualizer"} : output[agentMap[a]].html \in {"json", "text"}

(***************************************************************************)
(* C5.  runFullPipeline runs the seven agents one after another in the     *)
(* order of `agents`: the k-th runAgent it starts is for agents[k], every  *)
(* run but the latest has settled, and the pipeline status is the          *)
(* 'Starting' line, one 'Executing' line per started agent in that order   *)
(* and, once the pipeline is over, the 'complete' line after all seven.    *)
(***************************************************************************)
C5_PipelineSequential ==
    \A p \in DOMAIN calls :
        calls[p].op = "runFullPipeline" =>
            LET kids == Kids(p)
                m == Cardinality(kids)
                over == IF calls[p].pc = "done" THEN 1 ELSE 0
            IN /\ m <= Len(agents)
               /\ \A id \in kids :
                      /\ calls[id].agent = agents[Cardinality({j \in kids : j <= id})]
                      /\ calls[id].pc # "done" => \A j \in kids : j <= id
               /\ pipelineStatus = SubSeq(ExpectedStatus, 1, 1 + m + over)
               /\ calls[p].pc = "done" =>
                      /\ m = Len(agents)
                      /\ \A id \in kids : calls[id].pc = "done"

C5_Witness ==
    /\ calls # <<>>
    /\ calls[1].pc = "done"
    /\ pipelineStatus = ExpectedStatus
    /\ Cardinality(Kids(1)) = 7

(***************************************************************************)
(* C6.  runFullPipeline terminates: once started it reaches its end, with  *)
(* 'Pipeline execution complete!' in the status exactly once, also when    *)
(* executeAgent throws for some agents; the line is never there twice.     *)
(***************************************************************************)
C6_PipelineTerminates ==
    /\ [](CompleteCount <= 1)
    /\ (calls # <<>>) ~> [](calls # <<>> /\ calls[1].pc = "done" /\ CompleteCount = 1)

\* a finished pipeline two of whose agents threw
C6_Witness ==
    /\ calls # <<>>
    /\ calls[1].pc = "done"
    /\ CompleteCount = 1
    /\ IsError(output[agentMap["chemistry"]])
    /\ IsError(output[agentMap["visualizer"]])

(***************************************************************************)
(* C7, as claimed.  Whatever the user started and however the callbacks    *)
(* interleaved, once everything is over the step statuses, output panes    *)
(* and pipeline status are those of running the same invocations one       *)
(* after another, in some order.                                           *)
(***************************************************************************)
C7_AnyInterleavingIsSequential ==
    Quiescent =>
        \E f \in Perms(Len(UserSeq)) :
            Visible = SeqPage([k \in 1..Len(UserSeq) |-> UserSeq[f[k]]], Len(UserSeq))

(***************************************************************************)
(* C7, amended.  The same holds, in the order of invocation, when no       *)
(* resetDemo was started while a run was in flight and no runFullPipeline  *)
(* while another was in flight.                                            *)
(***************************************************************************)
C7_SequentialWithoutInterference ==
    (Quiescent /\ NoInterference) => Visible = SeqPage(UserSeq, Len(UserSeq))

\* two runs of the same agent overlapped and are over
C7_Witness ==
    /\ Quiescent
    /\ NoInterference
    /\ \E id \in UserCalls :
           /\ calls[id].during # {}
           /\ \E j \in calls[id].during : calls[j].agent = calls[id].agent

(***************************************************************************)
(* C8.  resetDemo cancels nothing: every run that was in flight when a     *)
(* reset was clicked still waits for its next timer until it is over, and  *)
(* once everything is over after such a reset (no later reset), the page   *)
(* is not in the reset state.                                              *)
(***************************************************************************)
C8_ResetDoesNotCancel ==
    \A r \in Resets :
        /\ \A id \in calls[r].during : calls[id].pc # "done" => HasTimer(id)
        /\ (Quiescent /\ calls[r].during # {} /\ \A q \in Resets : q <= r) =>
               ~PageIsReset

C8_Witness ==
    /\ Quiescent
    /\ \E r \in Resets : calls[r].during # {} /\ ~PageIsReset

(***************************************************************************)
(* C9, as claimed.  With the libraries loaded, a visualizer run of the     *)
(* pipeline ends with the value of mockVizData in the output pane and the  *)
(* chosen visualization drawn in vizCanvas: mockVizData(vizType) has the   *)
(* fields the chosen renderer reads.                                       *)
(***************************************************************************)
C9_VisualizerRendersMockData ==
    \A id \in DOMAIN calls :
        (calls[id].agent = "visualizer" /\ calls[id].op = "runAgent"
            /\ calls[id].pc = "done" /\ loaded = Libs) =>
            /\ ReadsOf(RendererOf(calls[id].arg)) \subseteq
                   (MockResult("visualizer", calls[id].arg)).fields
            /\ output[agentMap["visualizer"]] =
                   JsonPane(MockResult("visualizer", calls[id].arg))
            /\ containers["vizCanvas"] \notin {"", "svg"}

(***************************************************************************)
(* synergy_graph.js and visualizations.js: the drag handlers.  d3-drag     *)
(* keeps one gesture per pointer and a count of the gestures in progress;  *)
(* a start event carries the count before the gesture is added, an end     *)
(* event the count after it is removed, a drag event the current count.    *)
(* The handlers work on the simulation: its nodes and its alphaTarget.     *)
(***************************************************************************)
Simulation == [nodes |-> nodes, alphaTarget |-> alphaTarget]

\* SynergyGraph.drag: the three handlers, bound to the SynergyGraph
SynergyGraph_dragstarted(sim, event, d) ==
    LET s1 == IF event.active = 0
              THEN [sim EXCEPT !.alphaTarget = AlphaTargetDragging]
              ELSE sim
    IN  [s1 EXCEPT !.nodes[d].fx = <<sim.nodes[d].x>>,
                   !.nodes[d].fy = <<sim.nodes[d].y>>]

SynergyGraph_dragged(sim, event, d) ==
    [sim EXCEPT !.nodes[d].fx = <<event.x>>,
                !.nodes[d].fy = <<event.y>>]

\* a variant of dragended that leaves the node where it was dropped
SynergyGraph_dragendedPinned(sim, event, d) ==
    IF event.active = 0 THEN [sim EXCEPT !.alphaTarget = 0] ELSE sim

SynergyGraph_dragended(sim, event, d) ==
    LET s1 == IF event.active = 0
              THEN [sim EXCEPT !.alphaTarget = 0]
              ELSE sim
    IN  [s1 EXCEPT !.nodes[d].fx = Null,
                   !.nodes[d].fy = Null]

\* createForceDirectedGraph: the three handlers, closing over simulation
dragstarted(sim, event, d) ==
    LET s1 == IF event.active = 0
              THEN [sim EXCEPT !.alphaTarget = AlphaTargetDragging]
              ELSE sim
    IN  [s1 EXCEPT !.nodes[d].fx = <<sim.nodes[d].x>>,
                   !.nodes[d].fy = <<sim.nodes[d].y>>]

dragged(sim, event, d) ==
    [sim EXCEPT !.nodes[d].fx = <<event.x>>,
                !.nodes[d].fy = <<event.y>>]

dragended(sim, event, d) ==
    LET s1 == IF event.active = 0
              THEN [sim EXCEPT !.alphaTarget = 0]
              ELSE sim
    IN  [s1 EXCEPT !.nodes[d].fx = Null,
                   !.nodes[d].fy = Null]

\* .on('start' | 'drag' | 'end', ...): the listener of the graph drawn
Listener(type, sim, event, d) ==
    IF graph = "SynergyGraph"
    THEN CASE type = "start" -> SynergyGraph_dragstarted(sim, event, d)
           [] type = "drag"  -> SynergyGraph_dragged(sim, event, d)
           [] type = "end"   -> SynergyGraph_dragended(sim, event, d)
    ELSE CASE type = "start" -> dragstarted(sim, event, d)
           [] type = "drag"  -> dragged(sim, event, d)
           [] type = "end"   -> dragended(sim, event, d)

\* the gestures in progress
Active == Cardinality({p \in Pointers : gestures[p] # ""})

Dispatch(type, event, d) ==
    LET sim == Listener(type, Simulation, event, d)
    IN  /\ nodes' = sim.nodes
        /\ alphaTarget' = sim.alphaTarget
        /\ lastEvent' = type
        /\ UNCHANGED <<graph, demoVars, requests, mainVars, hoverVars, instanceVars>>

\* a graph has been drawn and its simulation has placed the nodes
DragInit ==
    /\ DashboardIdle
    /\ requests = <<>>
    /\ DemoIdle
    /\ graph \in {"SynergyGraph", "createForceDirectedGraph"}
    /\ nodes \in [Nodes -> [x : Coords, y : Coords, fx : {Null}, fy : {Null}]]
    /\ alphaTarget = 0
    /\ gestures = [p \in Pointers |-> ""]
    /\ lastEvent = ""
    /\ graphData = [links |-> {}]
    /\ nodeAttrs = [n \in Champions |-> [opacity |-> Null]]
    /\ linkAttrs = [l \in {} |-> 0]
    /\ transitions = [sel \in {"nodeElements", "linkElements"} |->
                         Transition("none", Rendered)]
    /\ hovered = <<Rendered, Rendered>>
    /\ synergyGraph = IF graph = "SynergyGraph"
                      THEN SynergyGraph_constructor("undefined", EmptyObject)
                      ELSE NoInstance

\* pointer p goes down on node d
DragStart(p, d) ==
    /\ gestures[p] = ""
    /\ gestures' = [gestures EXCEPT ![p] = d]
    /\ Dispatch("start", [active |-> Active, x |-> nodes[d].x, y |-> nodes[d].y], d)

\* pointer p moves, putting its subject at <<x, y>>
Drag(p, x, y) ==
    /\ gestures[p] # ""
    /\ UNCHANGED gestures
    /\ Dispatch("drag", [active |-> Active, x |-> x, y |-> y], gestures[p])

\* pointer p goes up
DragEnd(p) ==
    /\ gestures[p] # ""
    /\ gestures' = [gestures EXCEPT ![p] = ""]
    /\ Dispatch("end", [active |-> Active - 1, x |-> nodes[gestures[p]].x,
                         y |-> nodes[gestures[p]].y], gestures[p])

\* the simulation ticks: a node with fx and fy is put there, and node n, if
\* free, is carried to <<x, y>> by the forces
Tick(n, x, y) ==
    /\ nodes' = [m \in Nodes |->
                   IF nodes[m].fx # Null
                   THEN [nodes[m] EXCEPT !.x = nodes[m].fx[1], !.y = nodes[m].fy[1]]
                   ELSE IF m = n THEN [nodes[m] EXCEPT !.x = x, !.y = y]
                   ELSE nodes[m]]
    /\ lastEvent' = "tick"
    /\ UNCHANGED <<graph, alphaTarget, gestures, demoVars, requests, mainVars,
                   hoverVars, instanceVars>>

DragNext ==
    \/ \E p \in Pointers, d \in Nodes : DragStart(p, d)
    \/ \E p \in Pointers, x \in Coords, y \in Coords : Drag(p, x, y)
    \/ \E p \in Pointers : DragEnd(p)
    \/ \E n \in Nodes, x \in Coords, y \in Coords : Tick(n, x, y)

SpecDrag == DragInit /\ [][DragNext]_vars

(***************************************************************************)
(* synergy_graph.js: hovering over a node of a SynergyGraph.  Opacities    *)
(* are in tenths, link values in tenths, widths in quarters.  The two      *)
(* selections each carry one d3 transition: a call schedules it, replacing *)
(* the one before (d3 interrupts or cancels the older transition of an     *)
(* element when a newer one starts); it starts on a later frame and 200 ms *)
(* later ends with every attribute at its target.  While it runs the       *)
(* attributes are somewhere between their old values and the targets.      *)
(***************************************************************************)
LinkValues == {2, 8}
CandidateLinks ==
    {l \in [source : Champions, target : Champions, value : LinkValues] :
        l.source # l.target}

getLinkWidth(value) == 4 + (value * 2)

renderLinks(links) ==
    [l \in links |-> [strokeOpacity |-> 6, strokeWidth |-> getLinkWidth(l.value)]]

\* a variant of the test of highlightNode that follows links one way only
ConnectedFromNode(links, node, d) ==
    \E l \in links : l.source = node /\ l.target = d

\* highlightNode: this.graphData.links.some(...)
Connected(links, node, d) ==
    \E l \in links : \/ (l.source = node /\ l.target = d)
                     \/ (l.target = node /\ l.source = d)

\* highlightNode: the three attribute functions
highlightOpacity(links, node, d) ==
    IF d = node THEN 10
    ELSE IF Connected(links, node, d) THEN 10 ELSE 2

highlightStrokeOpacity(node, l) ==
    IF l.source = node \/ l.target = node THEN 10 ELSE 1

highlightStrokeWidth(node, l) ==
    IF l.source = node \/ l.target = node
    THEN (getLinkWidth(l.value) * 3) \div 2
    ELSE getLinkWidth(l.value)

\* a variant of the width resetHighlight restores: the highlighted width
resetStrokeWidthKept(l) == (getLinkWidth(l.value) * 3) \div 2

\* resetHighlight: the width function
resetStrokeWidth(l) == getLinkWidth(l.value)

\* the attributes a transition made by call ends with
NodeTargets(call) ==
    [d \in Champions |->
        [opacity |-> IF call.kind = "highlightNode"
                     THEN <<highlightOpacity(graphData.links, call.node, d)>>
                     ELSE <<10>>]]

LinkTargets(call) ==
    [l \in DOMAIN linkAttrs |->
        IF call.kind = "highlightNode"
        THEN [strokeOpacity |-> highlightStrokeOpacity(call.node, l),
              strokeWidth |-> highlightStrokeWidth(call.node, l)]
        ELSE [strokeOpacity |-> 6, strokeWidth |-> resetStrokeWidth(l)]]

\* selection.transition().duration(200) on both selections
Schedule(call) ==
    /\ transitions' = [sel \in DOMAIN transitions |-> Transition("scheduled", call)]
    /\ hovered' = <<hovered[2], call>>
    /\ UNCHANGED <<graphData, nodeAttrs, linkAttrs>>
    /\ UNCHANGED <<demoVars, requests, mainVars, dragVars, instanceVars>>

highlightNode(node) == Schedule(HoverCall("highlightNode", node))

resetHighlight == Schedule(HoverCall("resetHighlight", ""))

\* render(graphData) has drawn the graph
HoverInit ==
    /\ DashboardIdle
    /\ requests = <<>>
    /\ DemoIdle
    /\ graph = "SynergyGraph"
    /\ nodes = [n \in Nodes |-> [x |-> 0, y |-> 0, fx |-> Null, fy |-> Null]]
    /\ alphaTarget = 0
    /\ gestures = [p \in Pointers |-> ""]
    /\ lastEvent = ""
    /\ \E links \in SUBSET CandidateLinks :
          /\ Cardinality(links) <= MaxLinks
          /\ graphData = [links |-> links]
          /\ linkAttrs = renderLinks(links)
    /\ nodeAttrs = [n \in Champions |-> [opacity |-> Null]]
    /\ transitions = [sel \in {"nodeElements", "linkElements"} |->
                         Transition("none", Rendered)]
    /\ hovered = <<Rendered, Rendered>>
    /\ synergyGraph = SynergyGraph_constructor("undefined", EmptyObject)

\* the mouse enters the circle of node d
MouseEnter(d) == highlightNode(d)

\* the mouse leaves a circle
MouseLeave == resetHighlight

\* the scheduled transition of a selection starts
TransitionStarts(sel) ==
    /\ transitions[sel].state = "scheduled"
    /\ transitions' = [transitions EXCEPT ![sel].state = "running"]
    /\ UNCHANGED <<graphData, nodeAttrs, linkAttrs, hovered>>
    /\ UNCHANGED <<demoVars, requests, mainVars, dragVars, instanceVars>>

\* the running transition of a selection ends
TransitionEnds(sel) ==
    /\ transitions[sel].state = "running"
    /\ transitions' = [transitions EXCEPT ![sel].state = "ended"]
    /\ IF sel = "nodeElements"
       THEN /\ nodeAttrs' = NodeTargets(transitions[sel].call)
            /\ UNCHANGED linkAttrs
       ELSE /\ linkAttrs' = LinkTargets(transitions[sel].call)
            /\ UNCHANGED nodeAttrs
    /\ UNCHANGED <<graphData, hovered>>
    /\ UNCHANGED <<demoVars, requests, mainVars, dragVars, instanceVars>>

HoverNext ==
    \/ \E d \in Champions : MouseEnter(d)
    \/ MouseLeave
    \/ \E sel \in DOMAIN transitions : TransitionStarts(sel)
    \/ \E sel \in DOMAIN transitions : TransitionEnds(sel)

SpecHover == HoverInit /\ [][HoverNext]_vars

(***************************************************************************)
(* The constructor of SynergyGraph, called by a page.                      *)
(***************************************************************************)
\* the page evaluates `new SynergyGraph(containerId, arg)`
NewSynergyGraph(argType, arg) ==
    /\ argType = "object" \/ arg = EmptyObject
    /\ synergyGraph' = SynergyGraph_constructor(argType, arg)
    /\ UNCHANGED <<demoVars, requests, mainVars, dragVars, hoverVars>>

ConstructNext ==
    \E argType \in {"undefined", "null", "object"}, arg \in OptionObjects :
        NewSynergyGraph(argType, arg)

SpecConstruct == DashboardInit /\ [][ConstructNext]_vars

(***************************************************************************)
(* What the claims about the dashboard speak of.                           *)
(***************************************************************************)
ConsoleCount(level, text) ==
    IF <<level, text>> \in DOMAIN console THEN console[<<level, text>>] ELSE 0

\* the invocations of op whose catch block ran
Caught(op) ==
    {id \in DOMAIN fetches : fetches[id].op = op /\ fetches[id].pc = "caught"}

\* id's catch block runs in this step
Catches(id) ==
    /\ id \in DOMAIN fetches
    /\ fetches[id].pc \in {"fetch", "json"}
    /\ fetches'[id].pc = "caught"

ChatApologies ==
    Cardinality({k \in DOMAIN chatMessages : chatMessages[k] = <<"bot", ChatApology>>})

ErrorStatuses == {<<"Error: " \o FetchError>>, <<"Error: " \o ParseError>>,
                  <<"Error: " \o NullError>>}

\* some element of the page shows an error message
PageShowsError ==
    \/ analysisStatus \in ErrorStatuses
    \/ ChatApologies > 0

ConsoleHasError == \E e \in DOMAIN console : e[1] = "error"

Endpoints == {<<"GET", "/api/v1/health">>,
              <<"POST", "/api/v1/summoner/analyze">>,
              <<"POST", "/api/v1/meta/chat">>}

(***************************************************************************)
(* C1.  analyzeSummoner with an empty summoner name shows 'Please enter a  *)
(* summoner name', issues no request and calls pollAnalysisStatus neither  *)
(* then nor later: no analyze request exists for an empty name, and every  *)
(* call of pollAnalysisStatus belongs to an analyze request that ended.    *)
(***************************************************************************)
C1_EmptyNameIsRejected ==
    /\ [](/\ \A id \in DOMAIN fetches :
                fetches[id].op = "analyzeSummoner" => fetches[id].arg # ""
          /\ Len(polled) <= Cardinality({id \in DOMAIN fetches :
                                /\ fetches[id].op = "analyzeSummoner"
                                /\ fetches[id].pc = "done"}))
    /\ [][(\/ KeyPress("Enter", "summonerName", "")
           \/ (summonerName = "" /\ KeyPress("Enter", "region", "")))
          => /\ analysisStatus' = <<ValidationMessage>>
             /\ requests' = requests
             /\ fetches' = fetches
             /\ polled' = polled]_vars

C1_Witness ==
    /\ analysisStatus = <<ValidationMessage>>
    /\ summonerName = ""
    /\ \A id \in DOMAIN fetches : fetches[id].op # "analyzeSummoner"

(***************************************************************************)
(* C2, as claimed.  Whenever the catch block of checkSystemHealth,         *)
(* analyzeSummoner or sendChatMessage has run, the page shows an error     *)
(* message and the console holds an error.                                 *)
(***************************************************************************)
C2_FailureShownAndLogged ==
    \A op \in {"checkSystemHealth", "analyzeSummoner", "sendChatMessage"} :
        Caught(op) # {} => (PageShowsError /\ ConsoleHasError)

(***************************************************************************)
(* C2, amended.  Each of the three operations catches a rejected fetch or  *)
(* an unparsable body; checkSystemHealth then only writes 'Health check    *)
(* failed:' to the console and shows nothing in the page, analyzeSummoner  *)
(* only shows 'Error: <message>' in the analysis status and logs nothing,  *)
(* and sendChatMessage does both (an apology and 'Chat error:').           *)
(***************************************************************************)
C2_FailureShownOrLogged ==
    /\ [](/\ ConsoleCount("error", "Health check failed:") =
                 Cardinality(Caught("checkSystemHealth"))
          /\ ConsoleCount("error", "Chat error:") =
                 Cardinality(Caught("sendChatMessage"))
          /\ ChatApologies = Cardinality(Caught("sendChatMessage"))
          /\ \A e \in DOMAIN console :
                 e[1] = "error" => e[2] \in {"Health check failed:", "Chat error:"})
    /\ [][\A id \in DOMAIN fetches :
              Catches(id) =>
                  /\ fetches[id].op = "analyzeSummoner" =>
                         /\ analysisStatus' \in ErrorStatuses
                         /\ console' = console
                  /\ fetches[id].op = "checkSystemHealth" =>
                         UNCHANGED <<analysisStatus, chatMessages,
                                     metaMessages, indicators>>]_vars

\* a health check and an analysis have both failed
C2_Witness ==
    /\ Caught("checkSystemHealth") # {}
    /\ Caught("analyzeSummoner") # {}

(***************************************************************************)
(* C3.  Every request the front end has issued is GET /api/v1/health,      *)
(* POST /api/v1/summoner/analyze or POST /api/v1/meta/chat.                *)
(***************************************************************************)
C3_OnlyDocumentedEndpoints ==
    \A k \in DOMAIN requests :
        <<requests[k].method, requests[k].url>> \in Endpoints

\* requests of two different operations have gone out
C3_Witness ==
    /\ \E k \in DOMAIN requests : fetches[requests[k].by].op = "MetaChat.sendMessage"
    /\ \E k \in DOMAIN requests : fetches[requests[k].by].op = "checkSystemHealth"

(***************************************************************************)
(* C10.  With either graph, a start event puts d.fx, d.fy at d.x, d.y; a   *)
(* drag event puts them at the event's coordinates; an end event makes     *)
(* them null.  A node is pinned only while a gesture on it is in progress, *)
(* and alphaTarget goes to 0.3 at a start and back to 0 at an end exactly  *)
(* when no other gesture is in progress, so it is 0.3 exactly while some   *)
(* gesture is.                                                             *)
(***************************************************************************)
C10_DragPinsWhileDragging ==
    /\ [](/\ \A n \in Nodes :
                (nodes[n].fx # Null \/ nodes[n].fy # Null)
                    => \E p \in Pointers : gestures[p] = n
          /\ alphaTarget = (IF Active > 0 THEN AlphaTargetDragging ELSE 0))
    /\ [][\A p \in Pointers, d \in Nodes :
              (lastEvent' = "start" /\ DragStart(p, d)) =>
                  /\ nodes'[d].fx = <<nodes[d].x>>
                  /\ nodes'[d].fy = <<nodes[d].y>>
                  /\ alphaTarget' = (IF Active = 0 THEN AlphaTargetDragging
                                     ELSE alphaTarget)]_vars
    /\ [][\A p \in Pointers, x \in Coords, y \in Coords :
              (lastEvent' = "drag" /\ Drag(p, x, y)) =>
                  /\ nodes'[gestures[p]].fx = <<x>>
                  /\ nodes'[gestures[p]].fy = <<y>>
                  /\ alphaTarget' = alphaTarget]_vars
    /\ [][\A p \in Pointers :
              (lastEvent' = "end" /\ DragEnd(p)) =>
                  /\ nodes'[gestures[p]].fx = Null
                  /\ nodes'[gestures[p]].fy = Null
                  /\ alphaTarget' = (IF Active = 1 THEN 0 ELSE alphaTarget)]_vars

\* a gesture has ended, its node is free, and another gesture still holds
\* its node away from where the simulation had it
C10_Witness ==
    /\ lastEvent = "end"
    /\ alphaTarget = AlphaTargetDragging
    /\ \E p \in Pointers, n \in Nodes :
          /\ gestures[p] # ""
          /\ gestures[p] # n
          /\ nodes[n].fx = Null
          /\ nodes[gestures[p]].fx # <<nodes[gestures[p]].x>>

(***************************************************************************)
(* What the claims about the SynergyGraph under the mouse speak of.        *)
(***************************************************************************)
\* both transitions of the last call have ended
Settled(kind) ==
    \A sel \in DOMAIN transitions :
        /\ transitions[sel].state = "ended"
        /\ transitions[sel].call.kind = kind

\* some link joins n and d, in either direction
Joined(n, d) ==
    \E l \in graphData.links : {l.source, l.target} = {n, d}

(***************************************************************************)
(* C11.  Once the transitions of highlightNode(n) have ended, a node d has *)
(* opacity 1 if d is n or a link joins n and d in either direction and 0.2 *)
(* otherwise; a link has stroke-opacity 1 and 1.5 times its base width     *)
(* 1 + 5 * value if n is one of its ends, and stroke-opacity 0.1 and its   *)
(* base width otherwise.                                                   *)
(***************************************************************************)
C11_HighlightFadesNonConnected ==
    Settled("highlightNode") =>
        LET n == hovered[2].node
        IN  /\ \A d \in Champions :
                   nodeAttrs[d].opacity =
                       (IF d = n \/ Joined(n, d) THEN <<10>> ELSE <<2>>)
            /\ \A l \in graphData.links :
                   IF n \in {l.source, l.target}
                   THEN /\ linkAttrs[l].strokeOpacity = 10
                        /\ 2 * linkAttrs[l].strokeWidth = 3 * (4 + 2 * l.value)
                   ELSE /\ linkAttrs[l].strokeOpacity = 1
                        /\ linkAttrs[l].strokeWidth = 4 + 2 * l.value

\* the node highlighted is the target of a link, another node is faded,
\* and a link that does not touch it is faded too
C11_Witness ==
    /\ Settled("highlightNode")
    /\ \E l \in graphData.links : l.target = hovered[2].node
    /\ \E d \in Champions : nodeAttrs[d].opacity = <<2>>
    /\ \E l \in graphData.links : linkAttrs[l].strokeOpacity = 1

(***************************************************************************)
(* C20.  Once the transitions of a resetHighlight have ended, every link   *)
(* has stroke-opacity 0.6 and stroke-width 1 + 5 * value, as renderLinks   *)
(* set them, and every node has opacity 1, whichever node was highlighted  *)
(* before.                                                                 *)
(***************************************************************************)
C20_ResetRestoresRendering ==
    Settled("resetHighlight") =>
        /\ linkAttrs = renderLinks(graphData.links)
        /\ \A l \in graphData.links :
               /\ linkAttrs[l].strokeOpacity = 6
               /\ linkAttrs[l].strokeWidth = 4 + 2 * l.value
        /\ \A d \in Champions : nodeAttrs[d].opacity = <<10>>

\* a reset that followed the highlight of a node with a link
C20_Witness ==
    /\ Settled("resetHighlight")
    /\ hovered[1].kind = "highlightNode"
    /\ \E l \in graphData.links : hovered[1].node \in {l.source, l.target}

(***************************************************************************)
(* C12.  There is no retry: every invocation of checkSystemHealth,         *)
(* analyzeSummoner, sendChatMessage or MetaChat.sendMessage that fetches   *)
(* has issued exactly one request, a request is only issued by a step that *)
(* starts a new invocation, and a step in which an invocation in flight    *)
(* goes on (its fetch or its body settles, its catch block runs) issues    *)
(* none.                                                                   *)
(***************************************************************************)
C12_NoRetry ==
    /\ [](\A id \in DOMAIN fetches :
              Cardinality({k \in DOMAIN requests : requests[k].by = id}) = 1)
    /\ [][/\ requests' # requests =>
                /\ Len(fetches') = Len(fetches) + 1
                /\ Len(requests') = Len(requests) + 1
                /\ requests'[Len(requests')].by = Len(fetches')
          /\ (\E id \in DOMAIN fetches : fetches'[id] # fetches[id]) =>
                requests' = requests]_vars

\* two operations have failed, and two requests is all that was issued
C12_Witness ==
    /\ Caught("analyzeSummoner") # {}
    /\ Caught("MetaChat.sendMessage") # {}
    /\ Len(requests) = 2

(***************************************************************************)
(* What the claims about one run at a time speak of.                       *)
(***************************************************************************)
\* every invocation of the user was started with none other in flight, so
\* that no two operations touch a card at the same time
Sequential == \A id \in UserCalls : calls[id].during = {}

\* the steps of card n are complete up to some index, then at most one is
\* running, and the rest are pending
InIndexOrder(n) ==
    \E a \in 0..NumSteps, b \in {0, 1} :
        \A i \in Steps :
            stepStatus[n][i] = (IF i <= a THEN "Complete"
                                ELSE IF i <= a + b THEN "Running"
                                ELSE "Pending")

AllComplete(n) == \A i \in Steps : stepStatus[n][i] = "Complete"

(***************************************************************************)
(* C13.  With one operation at a time on a card: a step status changes     *)
(* only from Pending to Running and from Running to Complete, but for the  *)
(* reset to Pending when a run starts; the steps of a card are complete up *)
(* to some index, then at most one is Running and the rest are Pending;    *)
(* and executeAgent has started exactly when every step is Complete (the   *)
(* output pane still shows 'Processing...' until then).                    *)
(***************************************************************************)
C13_StepsAdvanceInOrder ==
    /\ [](Sequential =>
            /\ \A n \in Cards : InIndexOrder(n)
            /\ \A id \in DOMAIN calls :
                   (calls[id].op = "runAgent" /\ calls[id].pc # "done") =>
                       LET n == agentMap[calls[id].agent]
                       IN  /\ calls[id].pc \in {"mock", "mock2"} <=> AllComplete(n)
                           /\ output[n] = Processing)
    /\ [][Sequential' =>
            \A n \in Cards, i \in Steps :
                stepStatus'[n][i] # stepStatus[n][i] =>
                    \/ <<stepStatus[n][i], stepStatus'[n][i]>> \in
                           {<<"Pending", "Running">>, <<"Running", "Complete">>}
                    \/ /\ stepStatus'[n][i] = "Pending"
                       /\ Len(calls') > Len(calls)]_vars

\* a card is run a second time: its first step is complete again and its
\* second is running
C13_Witness ==
    /\ NumSteps >= 2
    /\ Sequential
    /\ Len(calls) = 2
    /\ calls[1].op = "runAgent" /\ calls[2].op = "runAgent"
    /\ calls[1].agent = calls[2].agent
    /\ stepStatus[agentMap[calls[2].agent]][1] = "Complete"
    /\ stepStatus[agentMap[calls[2].agent]][2] = "Running"

(***************************************************************************)
(* What the claims about a throwing executeAgent speak of.                 *)
(***************************************************************************)
\* the message of the error executeAgent is about to throw in run id ("" if
\* it is about to return)
Throws(id) ==
    executeAgentBody(Page, calls[id].agent, calls[id].arg,
                     MockResult(calls[id].agent, calls[id].arg)).error

\* run id leaves executeAgent in this step
Settles(id) ==
    /\ calls[id].op = "runAgent"
    /\ calls[id].pc \in {"mock", "mock2"}
    /\ calls'[id].pc = "done"

RemovalPending(ts, n) ==
    \E k \in DOMAIN ts : ts[k].kind = "removeActive" /\ ts[k].ref = n

(***************************************************************************)
(* C14.  When executeAgent throws in a run of the pipeline, runAgent       *)
(* catches it: in that step the output pane of the card becomes            *)
(* 'Error: <message>', the run is over and the pipeline awaiting it goes   *)
(* on to its pause, a timer of 2000 ms that removes 'active' from the card *)
(* is set, and the steps stay Complete.  Afterwards the steps are still    *)
(* Complete, the card is active only while that timer is pending, and it   *)
(* does lose 'active'.                                                     *)
(***************************************************************************)
C14_RunAgentCatches ==
    /\ [][\A id \in DOMAIN calls :
              (Settles(id) /\ Throws(id) # "") =>
                  LET n == agentMap[calls[id].agent]
                  IN  /\ output'[n] = ErrorPane(Throws(id))
                      /\ \A i \in Steps : stepStatus'[n][i] = "Complete"
                      /\ calls'[calls[id].parent].pc = "pause"
                      /\ \E k \in DOMAIN timers' :
                             timers'[k] = [rem |-> RemoveActiveDelay,
                                           kind |-> "removeActive", ref |-> n]]_vars
    /\ [](\A n \in Cards :
              IsError(output[n]) =>
                  /\ AllComplete(n)
                  /\ cardActive[n] => RemovalPending(timers, n))
    /\ \A n \in Cards : IsError(output[n]) ~> ~cardActive[n]

\* the chart of the chemistry agent threw, the card has lost 'active' and
\* the pipeline is at a later agent
C14_Witness ==
    /\ IsError(output[agentMap["chemistry"]])
    /\ AllComplete(agentMap["chemistry"])
    /\ ~cardActive[agentMap["chemistry"]]
    /\ calls # <<>>
    /\ calls[1].pc = "await"
    /\ calls[1].i > agentMap["chemistry"]

(***************************************************************************)
(* What the claims about the outcome of an analysis speak of.              *)
(***************************************************************************)
Analyses == {id \in DOMAIN fetches : fetches[id].op = "analyzeSummoner"}

\* the analyses that ended with 'Analysis Started!'
Started == {id \in Analyses : fetches[id].pc = "done" /\ fetches[id].ok}

FailedStatuses == {<<"Analysis failed: " \o b.detail>> : b \in AnalyzeBodies}

(***************************************************************************)
(* C15, as claimed.  The analysis status is 'Analyzing...', 'Analysis      *)
(* Started!', 'Analysis failed: ...', 'Error: ...' or the validation       *)
(* message, and an 'Error: ...' carries the error of a rejected fetch or   *)
(* of an unparsable body.                                                  *)
(***************************************************************************)
C15_ErrorOnlyWithoutBody ==
    /\ \/ analysisStatus \in {<<>>, <<ValidationMessage>>, <<AnalyzingMessage>>}
       \/ analysisStatus \in FailedStatuses \cup ErrorStatuses
       \/ analysisStatus[1] = "Analysis Started!"
    /\ analysisStatus \in ErrorStatuses =>
           analysisStatus \in {<<"Error: " \o FetchError>>, <<"Error: " \o ParseError>>}

(***************************************************************************)
(* C15, amended.  analyzeSummoner with a non-empty name shows              *)
(* 'Analyzing...' and fetches.  When the fetch rejects the status becomes  *)
(* 'Error: ...'; when the body cannot be parsed, or is null so that its    *)
(* fields cannot be read, the status becomes 'Error: ...' as well; when a  *)
(* body that is not null was parsed the status becomes 'Analysis Started!' *)
(* if response.ok and 'Analysis failed: ...' if not.  The status never     *)
(* stays 'Analyzing...' in the step that ends the invocation, and          *)
(* pollAnalysisStatus is called once for every 'Analysis Started!' and     *)
(* never else.                                                             *)
(***************************************************************************)
C15_OutcomeOfAnalysis ==
    /\ [](Len(polled) = Cardinality(Started))
    /\ [][/\ (Len(fetches') > Len(fetches)
              /\ fetches'[Len(fetches')].op = "analyzeSummoner") =>
                 analysisStatus' = <<AnalyzingMessage>>
          /\ \A id \in Analyses :
               /\ (fetches[id].pc = "fetch" /\ fetches'[id].pc # "fetch") =>
                      \/ fetches'[id].pc = "json" /\ UNCHANGED <<analysisStatus, polled>>
                      \/ /\ fetches'[id].pc = "caught"
                         /\ analysisStatus' = <<"Error: " \o FetchError>>
                         /\ polled' = polled
               /\ (fetches[id].pc = "json" /\ fetches'[id].pc # "json") =>
                      \/ /\ fetches'[id].pc = "caught"
                         /\ analysisStatus' \in {<<"Error: " \o ParseError>>,
                                                 <<"Error: " \o NullError>>}
                         /\ polled' = polled
                      \/ /\ fetches'[id].pc = "done"
                         /\ fetches[id].ok
                         /\ analysisStatus'[1] = "Analysis Started!"
                         /\ Len(polled') = Len(polled) + 1
                      \/ /\ fetches'[id].pc = "done"
                         /\ ~fetches[id].ok
                         /\ analysisStatus' \in FailedStatuses
                         /\ polled' = polled]_vars

\* one analysis was started, and a later one got the body null from a
\* response that was ok
C15_Witness ==
    /\ analysisStatus = <<"Error: " \o NullError>>
    /\ Cardinality(Started) = 1
    /\ \E id \in Analyses : fetches[id].pc = "caught" /\ fetches[id].ok

(***************************************************************************)
(* What the claims about the two chats speak of.                           *)
(***************************************************************************)
Count(msgs, sender) ==
    Cardinality({k \in DOMAIN msgs : msgs[k][1] = sender})

Sends(op) == {id \in DOMAIN fetches : fetches[id].op = op}

Pending(op) == {id \in Sends(op) : fetches[id].pc \in {"fetch", "json"}}

Replies == {b.response : b \in {c \in ChatBodies : ~c.isNull}}

\* the messages and the input of the chat that op belongs to
MessagesOf(op) == IF op = "sendChatMessage" THEN chatMessages ELSE metaMessages
InputOf(op) == IF op = "sendChatMessage" THEN chatInput ELSE metaInput
ApologyOf(op) == IF op = "sendChatMessage" THEN ChatApology ELSE MetaApology

\* the same, after the step
MessagesOfNext(op) == IF op = "sendChatMessage" THEN chatMessages' ELSE metaMessages'
InputOfNext(op) == IF op = "sendChatMessage" THEN chatInput' ELSE metaInput'

(***************************************************************************)
(* C16.  In each chat a send with non-blank input appends one user message *)
(* (the trimmed input), clears the input and issues the request in one     *)
(* step; the step in which the request settles appends one bot message:    *)
(* the reply when a body with a reply was parsed, the apology when the     *)
(* catch block ran.  So each chat has one user message per send and one    *)
(* bot message per settled send: never more bot than user messages, and    *)
(* as many when no request is in flight.                                   *)
(***************************************************************************)
C16_OneReplyPerMessage ==
    /\ [](\A op \in {"sendChatMessage", "MetaChat.sendMessage"} :
              /\ Count(MessagesOf(op), "user") = Cardinality(Sends(op))
              /\ Count(MessagesOf(op), "bot") =
                     Cardinality(Sends(op) \ Pending(op))
              /\ Count(MessagesOf(op), "bot") <= Count(MessagesOf(op), "user")
              /\ Pending(op) = {} =>
                     Count(MessagesOf(op), "bot") = Count(MessagesOf(op), "user"))
    /\ [][\A op \in {"sendChatMessage", "MetaChat.sendMessage"} :
            /\ (Len(fetches') > Len(fetches) /\ fetches'[Len(fetches')].op = op) =>
                   /\ MessagesOfNext(op) =
                          Append(MessagesOf(op), <<"user", fetches'[Len(fetches')].arg>>)
                   /\ fetches'[Len(fetches')].arg # ""
                   /\ InputOfNext(op) = ""
                   /\ Len(requests') = Len(requests) + 1
            /\ \A id \in Pending(op) :
                   /\ fetches'[id].pc = "done" =>
                          \E reply \in Replies :
                              MessagesOfNext(op) = Append(MessagesOf(op), <<"bot", reply>>)
                   /\ fetches'[id].pc = "caught" =>
                          MessagesOfNext(op) =
                              Append(MessagesOf(op), <<"bot", ApologyOf(op)>>)
                   /\ (fetches[id].pc = "fetch" /\ fetches'[id].pc = "json") =>
                          MessagesOfNext(op) = MessagesOf(op)]_vars

\* the dashboard chat has its reply, the MetaChat is still waiting for one
C16_Witness ==
    /\ Count(chatMessages, "user") = 1
    /\ Count(chatMessages, "bot") = 1
    /\ chatMessages[2][2] \in Replies
    /\ Count(metaMessages, "user") = 1
    /\ Count(metaMessages, "bot") = 0

(***************************************************************************)
(* C17.  A send whose input is empty or blank does nothing, in the chat of *)
(* the dashboard and in MetaChat: no message is appended, no request is    *)
(* issued and the input keeps the value it has.  No message and no request *)
(* ever carries an empty text.                                             *)
(***************************************************************************)
C17_BlankSendIsNoOp ==
    /\ [](/\ \A k \in DOMAIN chatMessages : chatMessages[k][2] # ""
          /\ \A k \in DOMAIN metaMessages : metaMessages[k][2] # ""
          /\ \A id \in Sends("sendChatMessage") \cup Sends("MetaChat.sendMessage") :
                 fetches[id].arg # "")
    /\ [][\A text \in ChatTexts :
              Trim(text) = "" =>
                  /\ KeyPress("Enter", "chatInput", text) =>
                         /\ chatInput' = text
                         /\ UNCHANGED <<chatMessages, requests, fetches>>
                  /\ MetaChatSend(text) =>
                         /\ metaInput' = text
                         /\ UNCHANGED <<metaMessages, requests, fetches>>]_vars

\* both chats were sent blanks and nothing happened
C17_Witness ==
    /\ chatInput = "  "
    /\ metaInput = "  "
    /\ chatMessages = <<>>
    /\ metaMessages = <<>>
    /\ requests = <<>>

(***************************************************************************)
(* What the claim about the status indicators speaks of.                   *)
(***************************************************************************)
\* the services that have an agent card, with their card
ServiceCards == {<<"api", "social-graph">>, <<"neptune", "chemistry">>,
                 <<"sagemaker", "adaptation">>, <<"bedrock", "storyteller">>}

\* the entries of services that speak of card c
EntriesFor(services, c) ==
    {e \in services : <<e[1], c>> \in ServiceCards}

HealthChecks == Sends("checkSystemHealth")

(***************************************************************************)
(* C18.  When a health response with a services object is parsed, every    *)
(* card that has a status dot and whose service (api, neptune, sagemaker,  *)
(* bedrock for social-graph, chemistry, adaptation, storyteller) has an    *)
(* entry gets the active class if the status is exactly 'operational' and  *)
(* the inactive class otherwise; every other indicator is left as it is.   *)
(* A step in which no health check completes (the fetch rejects, the body  *)
(* is unparsable or has no services) changes no indicator.                 *)
(***************************************************************************)
C18_IndicatorsFollowServices ==
    [][/\ \A id \in HealthChecks, body \in HealthBodies :
              (fetches[id].pc = "json" /\ body.hasServices /\ JsonResolves(id, body)) =>
                  \A c \in DashCards :
                      IF indicators[c] # NoDot /\ EntriesFor(body.services, c) # {}
                      THEN \E e \in EntriesFor(body.services, c) :
                               indicators'[c] = IF e[2] = "operational"
                                                THEN "status-dot status-active"
                                                ELSE "status-dot status-inactive"
                      ELSE indicators'[c] = indicators[c]
       /\ (\A id \in HealthChecks :
               ~(fetches[id].pc = "json" /\ fetches'[id].pc = "done")) =>
              indicators' = indicators
       /\ \A id \in HealthChecks :
              (fetches[id].pc # "caught" /\ fetches'[id].pc = "caught") =>
                  indicators' = indicators]_vars

\* one health check named api and neptune on a page whose chemistry card has
\* no dot, another one failed
C18_Witness ==
    /\ indicators["social-graph"] = "status-dot status-active"
    /\ indicators["chemistry"] = NoDot
    /\ indicators["adaptation"] = "status-dot"
    /\ indicators["storyteller"] = "status-dot"
    /\ \E id \in HealthChecks : fetches[id].pc = "done"
    /\ \E id \in HealthChecks : fetches[id].pc = "caught"

(***************************************************************************)
(* What the claim about resetDemo speaks of.                               *)
(***************************************************************************)
\* what resetDemo writes: class lists, step statuses, panes, pipeline status
Written(st) == [active |-> st.active, steps |-> st.steps, out |-> st.out,
                status |-> st.status]

ResetPage == [active |-> [n \in Cards |-> FALSE],
              steps |-> [n \in Cards |-> [i \in Steps |-> "Pending"]],
              out |-> [n \in Cards |-> Placeholder],
              status |-> <<ReadyLine>>]

\* the step is a click on Reset
IsReset == /\ Len(calls') > Len(calls)
           /\ calls'[Len(calls')].op = "resetDemo"

(***************************************************************************)
(* C19.  A resetDemo clicked while no run is in flight leaves every card   *)
(* without the active class, every step Pending, every pane showing the    *)
(* placeholder and the pipeline status showing the ready line, and the     *)
(* page stays so until the next click.  Applied to the page it has left,   *)
(* resetDemo writes nothing new: neither what it writes nor the timers and *)
(* containers it leaves alone change.                                      *)
(***************************************************************************)
C19_ResetIsIdempotent ==
    /\ [](\A r \in Resets :
              (calls[r].during = {} /\ \A id \in UserCalls : id <= r) =>
                  Written(Page) = ResetPage)
    /\ [](LET once == resetDemo(Page, {})
              twice == resetDemo(once, {})
          IN /\ Written(once) = ResetPage
             /\ Written(twice) = Written(once)
             /\ twice.timers = once.timers
             /\ twice.cont = once.cont
             /\ twice.reqs = once.reqs)
    /\ [][(IsReset /\ InFlight = {}) =>
              /\ Written(Page)' = ResetPage
              /\ Written(resetDemo(Page, {}))' = Written(Page)'
              /\ UNCHANGED <<timers, containers, requests>>]_vars

\* a card was still active after its run when Reset was clicked; the timer
\* that removes the class is still pending
C19_Witness ==
    /\ Quiescent
    /\ timers # <<>>
    /\ Written(Page) = ResetPage
    /\ \E r \in Resets :
           /\ calls[r].during = {}
           /\ \A id \in UserCalls : id <= r
           /\ \E id \in UserCalls : id < r /\ calls[id].op = "runAgent"

(***************************************************************************)
(* What the claim about the constructor speaks of.                         *)
(***************************************************************************)
DefaultOf(k) ==
    CASE k = "nodeRadius"     -> Num(DefaultNodeRadius)
      [] k = "linkDistance"   -> Num(DefaultLinkDistance)
      [] k = "chargeStrength" -> Num(DefaultChargeStrength)

(***************************************************************************)
(* C21, as claimed.  In a constructed SynergyGraph each of                 *)
(* options.nodeRadius, options.linkDistance and options.chargeStrength is  *)
(* the caller's value when that is a non-zero number, and the default 10,  *)
(* 100 or -400 when the caller's value is absent, undefined, null or 0.    *)
(***************************************************************************)
C21_NumericOptionsDefault ==
    synergyGraph.made =>
        \A k \in NumericOptions :
            LET given == Get(synergyGraph.arg, k)
            IN synergyGraph.options[k] =
                   IF given.type = "number" /\ given.num # 0
                   THEN given
                   ELSE DefaultOf(k)

====
